---- MODULE Spec2Model ----
(***************************************************************************)
(* Model of src/src/lib.rs: 3-dimensional vectors over f64, bivectors that *)
(* borrow two vectors, and the operations mag, angle, innerp, outerp,      *)
(* wedgep and geop.                                                        *)
(*                                                                         *)
(* f64 is modelled by a scaled-down IEEE-754 binary format with the same   *)
(* structure: signed zeros, subnormals, normal numbers, signed infinities  *)
(* and NaN, round-to-nearest-even, overflow to infinity and gradual        *)
(* underflow.  A finite value is sign * n * 2^(-FracBits); n counts quanta *)
(* (units of the smallest subnormal).                                      *)
(***************************************************************************)
EXTENDS Integers, Sequences, FiniteSets, TLC

(* ---------------------------- the float format ------------------------ *)

\* significand precision in bits (53 in f64)
Prec == 3
\* the smallest subnormal is 2^(-FracBits) (2^(-1074) in f64)
FracBits == 4
\* the widest binade has spacing 2^TopBinade quanta
TopBinade == 6

\* quanta in 1.0
Unit == 2^FracBits
\* the largest finite magnitude, in quanta (f64::MAX)
MaxMag == (2^Prec - 1) * 2^TopBinade

NaN == [k |-> "nan", s |-> 0, n |-> 0]
Inf(sg) == [k |-> "inf", s |-> sg, n |-> 0]
Fin(sg, m) == [k |-> "fin", s |-> sg, n |-> m]

IsNaN(x) == x.k = "nan"
IsInf(x) == x.k = "inf"
IsFinite(x) == x.k = "fin"
IsZero(x) == x.k = "fin" /\ x.n = 0

\* the magnitudes a finite value can have: spacing 1 below 2^Prec, then
\* spacing 2^j in the binade [2^(Prec-1+j), 2^(Prec+j))
FinMags ==
    (0 .. (2^Prec - 1)) \cup
    UNION { { m * 2^j : m \in 2^(Prec-1) .. (2^Prec - 1) } : j \in 1 .. TopBinade }

F64 == { Fin(sg, m) : sg \in {0, 1}, m \in FinMags } \cup { Inf(0), Inf(1), NaN }

\* the binade (exponent of the spacing) a magnitude with integer part q falls in
RECURSIVE Binade(_, _)
Binade(q, j) == IF q < 2^(Prec + j) THEN j ELSE Binade(q, j + 1)

\* IEEE round-to-nearest, ties-to-even, of the exact magnitude num/den quanta;
\* a result above the largest finite magnitude overflows to infinity
Round(sg, num, den) ==
    LET j  == Binade(num \div den, 0)
        d  == den * 2^j
        m  == num \div d
        r  == num % d
        up == (2 * r > d) \/ (2 * r = d /\ m % 2 = 1)
        n  == (IF up THEN m + 1 ELSE m) * 2^j
    IN  IF n > MaxMag THEN Inf(sg) ELSE Fin(sg, n)

Xor(s1, s2) == (s1 + s2) % 2

\* PartialEq for f64: NaN is unequal to everything, -0.0 == 0.0
FEq(x, y) ==
    /\ ~IsNaN(x)
    /\ ~IsNaN(y)
    /\ \/ x = y
       \/ IsZero(x) /\ IsZero(y)

\* unary minus
FNeg(x) == IF IsNaN(x) THEN NaN ELSE [x EXCEPT !.s = 1 - x.s]

\* f64 multiplication
FMul(x, y) ==
    IF IsNaN(x) \/ IsNaN(y) THEN NaN
    ELSE IF (IsInf(x) /\ IsZero(y)) \/ (IsZero(x) /\ IsInf(y)) THEN NaN
    ELSE IF IsInf(x) \/ IsInf(y) THEN Inf(Xor(x.s, y.s))
    ELSE Round(Xor(x.s, y.s), x.n * y.n, Unit)

\* f64 division
FDiv(x, y) ==
    IF IsNaN(x) \/ IsNaN(y) THEN NaN
    ELSE IF (IsInf(x) /\ IsInf(y)) \/ (IsZero(x) /\ IsZero(y)) THEN NaN
    ELSE IF IsInf(x) \/ IsZero(y) THEN Inf(Xor(x.s, y.s))
    ELSE IF IsInf(y) THEN Fin(Xor(x.s, y.s), 0)
    ELSE Round(Xor(x.s, y.s), x.n * Unit, y.n)

\* the signed number of quanta of a finite value
Signed(x) == IF x.s = 1 THEN 0 - x.n ELSE x.n

\* f64 addition
FAdd(x, y) ==
    IF IsNaN(x) \/ IsNaN(y) THEN NaN
    ELSE IF IsInf(x) /\ IsInf(y) THEN (IF x.s = y.s THEN x ELSE NaN)
    ELSE IF IsInf(x) THEN x
    ELSE IF IsInf(y) THEN y
    ELSE LET v == Signed(x) + Signed(y)
         IN  IF v = 0 THEN Fin(IF x.s = 1 /\ y.s = 1 THEN 1 ELSE 0, 0)
             ELSE IF v < 0 THEN Round(1, 0 - v, 1)
             ELSE Round(0, v, 1)

\* f64 subtraction
FSub(x, y) == FAdd(x, FNeg(y))

\* floor of the square root of a natural number, by bisection on [lo, hi)
RECURSIVE ISqrt(_, _, _)
ISqrt(N, lo, hi) ==
    IF hi - lo <= 1 THEN lo
    ELSE LET mid == (lo + hi) \div 2
         IN  IF mid * mid <= N THEN ISqrt(N, mid, hi) ELSE ISqrt(N, lo, mid)

\* f64::sqrt, correctly rounded: the square root of n quanta is
\* sqrt(n * Unit) quanta
FSqrt(x) ==
    IF IsNaN(x) THEN NaN
    ELSE IF IsZero(x) THEN x
    ELSE IF x.s = 1 THEN NaN
    ELSE IF IsInf(x) THEN x
    ELSE LET N  == x.n * Unit
             fl == ISqrt(N, 0, N + 1)
             g  == 2^Binade(fl, 0)
             m  == fl \div g
             h  == (2 * m + 1) * g
             up == (4 * N > h * h) \/ (4 * N = h * h /\ m % 2 = 1)
         IN  Fin(0, (IF up THEN m + 1 ELSE m) * g)

\* f64::powi(2): the square, one rounded multiplication
FPowi2(x) == FMul(x, x)

\* acos of the magnitudes in [0, 1], correctly rounded, in quanta (tabulated
\* for the format fixed by Prec, FracBits and TopBinade, as is SinTable)
AcosPosTable ==
    (0 :> 24) @@ (1 :> 24) @@ (2 :> 24) @@ (3 :> 24) @@ (4 :> 20) @@
    (5 :> 20) @@ (6 :> 20) @@ (7 :> 16) @@ (8 :> 16) @@ (10 :> 14) @@
    (12 :> 12) @@ (14 :> 8) @@ (16 :> 0)

\* acos of the negated magnitudes in [0, 1], correctly rounded, in quanta
AcosNegTable ==
    (0 :> 24) @@ (1 :> 28) @@ (2 :> 28) @@ (3 :> 28) @@ (4 :> 28) @@
    (5 :> 32) @@ (6 :> 32) @@ (7 :> 32) @@ (8 :> 32) @@ (10 :> 32) @@
    (12 :> 40) @@ (14 :> 40) @@ (16 :> 48)

\* f64::acos: NaN outside [-1, 1]
FAcos(x) ==
    IF ~IsFinite(x) THEN NaN
    ELSE IF x.n > Unit THEN NaN
    ELSE IF x.s = 1 THEN Fin(0, AcosNegTable[x.n])
    ELSE Fin(0, AcosPosTable[x.n])

\* sin of every finite magnitude, correctly rounded: <<sign, quanta>>
SinTable ==
    (0 :> <<0, 0>>) @@ (1 :> <<0, 1>>) @@ (2 :> <<0, 2>>) @@ (3 :> <<0, 3>>) @@
    (4 :> <<0, 4>>) @@ (5 :> <<0, 5>>) @@ (6 :> <<0, 6>>) @@ (7 :> <<0, 7>>) @@
    (8 :> <<0, 8>>) @@ (10 :> <<0, 10>>) @@ (12 :> <<0, 10>>) @@
    (14 :> <<0, 12>>) @@ (16 :> <<0, 14>>) @@ (20 :> <<0, 16>>) @@
    (24 :> <<0, 16>>) @@ (28 :> <<0, 16>>) @@ (32 :> <<0, 14>>) @@
    (40 :> <<0, 10>>) @@ (48 :> <<0, 2>>) @@ (56 :> <<1, 6>>) @@
    (64 :> <<1, 12>>) @@ (80 :> <<1, 16>>) @@ (96 :> <<1, 4>>) @@
    (112 :> <<0, 10>>) @@ (128 :> <<0, 16>>) @@ (160 :> <<1, 8>>) @@
    (192 :> <<1, 8>>) @@ (224 :> <<0, 16>>) @@ (256 :> <<1, 5>>) @@
    (320 :> <<0, 14>>) @@ (384 :> <<1, 14>>) @@ (448 :> <<0, 4>>)

\* f64::sin: odd, NaN at the infinities
FSin(x) ==
    IF ~IsFinite(x) THEN NaN
    ELSE LET t == SinTable[x.n]
         IN  Fin(Xor(x.s, t[1]), t[2])

(* ------------------------------ the program --------------------------- *)

\* the number of distinct component values the two vectors are built from
NumVals == 6

\* component values handed to Vector::new, in the order NumVals admits them:
\* 0.0, 1.0, -1.0, NaN, 16.0 (its square overflows), 0.0625 (its square
\* underflows), +infinity, 2.0
InputVals ==
    << Fin(0, 0), Fin(0, Unit), Fin(1, Unit), NaN, Fin(0, 16 * Unit), Fin(0, 1),
       Inf(0), Fin(0, 2 * Unit) >>

Vals == { InputVals[i] : i \in 1 .. NumVals }

VARIABLES
    vec1,   \* the first constructed Vector
    vec2,   \* the second constructed Vector
    op,     \* the operation called last ("new": none yet)
    ret     \* <<>> before a call, <<value>> after it

vars == <<vec1, vec2, op, ret>>

\* struct Vector { x, y, z }
Vector == [x : F64, y : F64, z : F64]

\* Vector::new
Vector_new(x, y, z) == [x |-> x, y |-> y, z |-> z]

\* a &Vector: the name of the vector it borrows
Refs == {"vec1", "vec2"}
Deref(r) == IF r = "vec1" THEN vec1 ELSE vec2

\* #[derive(PartialEq)] for Vector: field-wise f64 ==
Vector_eq(v, w) == FEq(v.x, w.x) /\ FEq(v.y, w.y) /\ FEq(v.z, w.z)

\* #[derive(PartialEq)] for Bivector: field-wise == of the borrowed vectors
Bivector_eq(p, q) ==
    /\ Vector_eq(Deref(p.x), Deref(q.x))
    /\ Vector_eq(Deref(p.y), Deref(q.y))

\* Bivector::from_vectors
from_vectors(x, y) == [x |-> x, y |-> y]

\* mutant of Vector_mag: the z component is left out
Vector_mag_no_z(self) ==
    LET v == Deref(self)
    IN  FSqrt(FAdd(FPowi2(v.x), FPowi2(v.y)))

\* mutant of Vector_mag: the sum of squares divided by its root
Vector_mag_quot(self) ==
    LET v == Deref(self)
        q == FAdd(FAdd(FPowi2(v.x), FPowi2(v.y)), FPowi2(v.z))
    IN  FDiv(q, FSqrt(q))

\* Magnitude for Vector
Vector_mag(self) ==
    LET v == Deref(self)
    IN  FSqrt(FAdd(FAdd(FPowi2(v.x), FPowi2(v.y)), FPowi2(v.z)))

\* mutant of innerp: the z term is left out
innerp_no_z(self, other) ==
    LET v == Deref(self)
        w == Deref(other)
    IN  [value |-> FAdd(FMul(v.x, w.x), FMul(v.y, w.y))]

\* InnerProduct for Vector
innerp(self, other) ==
    LET v == Deref(self)
        w == Deref(other)
    IN  [value |-> FAdd(FAdd(FMul(v.x, w.x), FMul(v.y, w.y)), FMul(v.z, w.z))]

\* mutant of angle: the magnitudes are added, not multiplied
angle_sum(self, other) ==
    FAcos(FDiv(innerp(self, other).value,
               FAdd(Vector_mag(self), Vector_mag(other))))

\* mutant of angle: the magnitude of self is taken twice
angle_self(self, other) ==
    FAcos(FDiv(innerp(self, other).value,
               FMul(Vector_mag(self), Vector_mag(self))))

\* Angle for Vector
angle(self, other) ==
    FAcos(FDiv(innerp(self, other).value,
               FMul(Vector_mag(self), Vector_mag(other))))

\* mutant of Bivector_mag: the angle itself where its sine belongs
Bivector_mag_no_sin(self) ==
    FMul(FMul(Vector_mag(self.x), Vector_mag(self.y)), angle(self.x, self.y))

\* Magnitude for Bivector
Bivector_mag(self) ==
    FMul(FMul(Vector_mag(self.x), Vector_mag(self.y)), FSin(angle(self.x, self.y)))

\* mutant of outerp: the operands of every difference exchanged (left-handed)
outerp_left(self, other) ==
    LET v == Deref(self)
        w == Deref(other)
    IN  [x |-> FSub(FMul(v.z, w.y), FMul(v.y, w.z)),
         y |-> FSub(FMul(v.x, w.z), FMul(v.z, w.x)),
         z |-> FSub(FMul(v.y, w.x), FMul(v.x, w.y))]

\* mutant of outerp: a sum where the z component takes a difference
outerp_plus(self, other) ==
    LET v == Deref(self)
        w == Deref(other)
    IN  [x |-> FSub(FMul(v.y, w.z), FMul(v.z, w.y)),
         y |-> FSub(FMul(v.z, w.x), FMul(v.x, w.z)),
         z |-> FAdd(FMul(v.x, w.y), FMul(v.y, w.x))]

\* OuterProduct for Vector
outerp(self, other) ==
    LET v == Deref(self)
        w == Deref(other)
    IN  [x |-> FSub(FMul(v.y, w.z), FMul(v.z, w.y)),
         y |-> FSub(FMul(v.z, w.x), FMul(v.x, w.z)),
         z |-> FSub(FMul(v.x, w.y), FMul(v.y, w.x))]

\* mutant of wedgep: the two borrows exchanged
wedgep_swapped(self, other) == [x |-> other, y |-> self]

\* WedgeProduct for Vector
wedgep(self, other) == [x |-> self, y |-> other]

\* mutant of geop: the bivector part borrows the vectors in the other order
geop_swapped(self, other) == <<innerp(self, other), [x |-> other, y |-> self]>>

\* GeometricProduct for Vector
geop(self, other) == <<innerp(self, other), [x |-> self, y |-> other]>>

\* two vectors have been constructed, nothing has been called
Init ==
    /\ vec1 \in { Vector_new(x, y, z) : x \in Vals, y \in Vals, z \in Vals }
    /\ vec2 \in { Vector_new(x, y, z) : x \in Vals, y \in Vals, z \in Vals }
    /\ op = "new"
    /\ ret = <<>>

\* a call reads the two vectors and leaves them alone
Call(name, value) ==
    /\ op = "new"
    /\ op' = name
    /\ ret' = <<value>>
    /\ UNCHANGED <<vec1, vec2>>

CallVectorMag == Call("mag", Vector_mag("vec1"))
CallBivectorMag == Call("bivector_mag", Bivector_mag(from_vectors("vec1", "vec2")))
CallAngle == Call("angle", angle("vec1", "vec2"))
CallInnerp == Call("innerp", innerp("vec1", "vec2"))
CallOuterp == Call("outerp", outerp("vec1", "vec2"))
CallWedgep == Call("wedgep", wedgep("vec1", "vec2"))
CallGeop == Call("geop", geop("vec1", "vec2"))

Next ==
    \/ CallVectorMag
    \/ CallBivectorMag
    \/ CallAngle
    \/ CallInnerp
    \/ CallOuterp
    \/ CallWedgep
    \/ CallGeop

Spec == Init /\ [][Next]_vars

TypeOK ==
    /\ vec1 \in Vector
    /\ vec2 \in Vector
    /\ op \in {"new", "mag", "bivector_mag", "angle", "innerp", "outerp", "wedgep", "geop"}
    /\ op \in {"mag", "bivector_mag", "angle"} => ret[1] \in F64
    /\ op = "outerp" => ret[1] \in Vector

(* ------------------------------- the claims --------------------------- *)

Zero == Fin(0, 0)
One == Fin(0, Unit)
MinusOne == Fin(1, Unit)

\* the vectors of the repository's tests
AxisX == Vector_new(One, Zero, Zero)
AxisY == Vector_new(Zero, One, Zero)
AxisZ == Vector_new(Zero, Zero, One)

HasNaN(v) == IsNaN(v.x) \/ IsNaN(v.y) \/ IsNaN(v.z)
AllFinite(v) == IsFinite(v.x) /\ IsFinite(v.y) /\ IsFinite(v.z)
IsZeroVector(v) == IsZero(v.x) /\ IsZero(v.y) /\ IsZero(v.z)

\* the exact product of two finite values, in quanta / Unit
ExactProd(x, y) == Signed(x) * Signed(y)

\* an exact value e / Unit is a float: no rounding, no overflow
Representable(e) ==
    /\ e % Unit = 0
    /\ (IF e < 0 THEN 0 - e ELSE e) \div Unit \in FinMags

\* C1 as stated: for all vectors, the scalar part of geop(a, b) equals
\* innerp(a, b).value and its bivector part equals wedgep(a, b) under the
\* derived (structural) equality.
C1_GeopEqualsPartsForAllVectors ==
    op = "geop" =>
        /\ ret[1][1].value = innerp("vec1", "vec2").value
        /\ Bivector_eq(ret[1][2], wedgep("vec1", "vec2"))

\* C1 amended: the scalar part of geop(a, b) is the value innerp(a, b)
\* computes, the bivector part borrows the same two vectors in the same
\* order as wedgep(a, b), and the two bivectors compare equal under the
\* derived equality exactly when no component of a or b is NaN.
C1_GeopDecomposes ==
    op = "geop" =>
        /\ ret[1][1] = innerp("vec1", "vec2")
        /\ ret[1][2] = wedgep("vec1", "vec2")
        /\ Bivector_eq(ret[1][2], wedgep("vec1", "vec2"))
               <=> (~HasNaN(vec1) /\ ~HasNaN(vec2))
        /\ FEq(ret[1][1].value, innerp("vec1", "vec2").value)
               <=> ~IsNaN(innerp("vec1", "vec2").value)

\* tests::test_geop: geop of (0,1,0) and (1,0,0)
C1_Witness ==
    /\ op = "geop"
    /\ vec1 = AxisY
    /\ vec2 = AxisX
    /\ FEq(ret[1][1].value, Zero)
    /\ Bivector_eq(ret[1][2], wedgep("vec1", "vec2"))

\* C2: wedgep(a, b) is the bivector whose x borrows a and whose y borrows b,
\* in that order; the vectors read through it have the components a and b
\* were built with.
C2_WedgepPairsInOrder ==
    op = "wedgep" =>
        /\ ret[1].x = "vec1"
        /\ ret[1].y = "vec2"
        /\ Deref(ret[1].x) = vec1
        /\ Deref(ret[1].y) = vec2
        /\ ~HasNaN(vec1) => Vector_eq(vec1, Deref(ret[1].x))
        /\ ~HasNaN(vec2) => Vector_eq(vec2, Deref(ret[1].y))

\* tests::test_wedgep: two different vectors, so a swap would show
C2_Witness ==
    /\ op = "wedgep"
    /\ vec1 = AxisY
    /\ vec2 = AxisX
    /\ Vector_eq(AxisY, Deref(ret[1].x))
    /\ Vector_eq(AxisX, Deref(ret[1].y))

\* the right-handed cross product written out in f64 arithmetic
Cross(a, b) ==
    [x |-> FSub(FMul(a.y, b.z), FMul(a.z, b.y)),
     y |-> FSub(FMul(a.z, b.x), FMul(a.x, b.z)),
     z |-> FSub(FMul(a.x, b.y), FMul(a.y, b.x))]

\* r is the exact difference p*q - u*v whenever both products and the
\* difference are floats
ExactDiff(r, p, q, u, v) ==
    (/\ IsFinite(p) /\ IsFinite(q) /\ IsFinite(u) /\ IsFinite(v)
     /\ Representable(ExactProd(p, q))
     /\ Representable(ExactProd(u, v))
     /\ Representable(ExactProd(p, q) - ExactProd(u, v)))
    => /\ IsFinite(r)
       /\ Signed(r) * Unit = ExactProd(p, q) - ExactProd(u, v)

\* C3: outerp(a, b) is the right-handed cross product
\* (y1*z2 - z1*y2, z1*x2 - x1*z2, x1*y2 - y1*x2): the f64 evaluation of that
\* expression, the exact real value wherever no rounding or overflow
\* intervenes, and (0,0,-1) for (0,1,0) and (1,0,0).
C3_OuterpIsCrossProduct ==
    op = "outerp" =>
        /\ ret[1] = Cross(vec1, vec2)
        /\ ExactDiff(ret[1].x, vec1.y, vec2.z, vec1.z, vec2.y)
        /\ ExactDiff(ret[1].y, vec1.z, vec2.x, vec1.x, vec2.z)
        /\ ExactDiff(ret[1].z, vec1.x, vec2.y, vec1.y, vec2.x)
        /\ (vec1 = AxisY /\ vec2 = AxisX)
               => Vector_eq(Vector_new(Zero, Zero, MinusOne), ret[1])

\* tests::test_outerp
C3_Witness ==
    /\ op = "outerp"
    /\ vec1 = AxisY
    /\ vec2 = AxisX
    /\ ret[1].z = MinusOne

\* component-wise negation of a vector
VNeg(v) == [x |-> FNeg(v.x), y |-> FNeg(v.y), z |-> FNeg(v.z)]

\* C4 as stated: for all vectors, outerp(a, b) == -outerp(b, a) under the
\* component-wise equality of f64.
C4_AnticommutativeForAllVectors ==
    op = "outerp" => Vector_eq(ret[1], VNeg(outerp("vec2", "vec1")))

\* one component c of outerp(a, b) against the same component d of
\* outerp(b, a): NaN together, otherwise c == -d
NegatedOrBothNaN(c, d) ==
    /\ IsNaN(c) <=> IsNaN(d)
    /\ ~IsNaN(c) => FEq(c, FNeg(d))

\* C4 amended: every component of outerp(a, b) that is not NaN equals the
\* negation of the corresponding component of outerp(b, a), and a component
\* is NaN in the one exactly when it is NaN in the other; so
\* outerp(a, b) == -outerp(b, a) holds exactly when outerp(a, b) has no NaN
\* component.
C4_AnticommutativeUnlessNaN ==
    op = "outerp" =>
        LET o == outerp("vec2", "vec1")
        IN  /\ NegatedOrBothNaN(ret[1].x, o.x)
            /\ NegatedOrBothNaN(ret[1].y, o.y)
            /\ NegatedOrBothNaN(ret[1].z, o.z)
            /\ Vector_eq(ret[1], VNeg(o)) <=> ~HasNaN(ret[1])

\* (0,1,0) x (1,0,0) = (0,0,-1) and (1,0,0) x (0,1,0) = (0,0,1)
C4_Witness ==
    /\ op = "outerp"
    /\ vec1 = AxisY
    /\ vec2 = AxisX
    /\ ret[1].z = MinusOne
    /\ outerp("vec2", "vec1").z = One

\* the dot product written out in f64 arithmetic
Dot(a, b) == FAdd(FAdd(FMul(a.x, b.x), FMul(a.y, b.y)), FMul(a.z, b.z))

\* C5: innerp(a, b).value is the dot product x1*x2 + y1*y2 + z1*z2: the f64
\* evaluation of that expression, the exact real value wherever no rounding
\* or overflow intervenes, and 0 for (0,1,0) and (1,0,0).
C5_InnerpIsDotProduct ==
    op = "innerp" =>
        LET px == ExactProd(vec1.x, vec2.x)
            py == ExactProd(vec1.y, vec2.y)
            pz == ExactProd(vec1.z, vec2.z)
        IN  /\ ret[1].value = Dot(vec1, vec2)
            /\ (/\ AllFinite(vec1) /\ AllFinite(vec2)
                /\ Representable(px) /\ Representable(py) /\ Representable(pz)
                /\ Representable(px + py) /\ Representable(px + py + pz))
               => /\ IsFinite(ret[1].value)
                  /\ Signed(ret[1].value) * Unit = px + py + pz
            /\ (vec1 = AxisY /\ vec2 = AxisX) => FEq(Zero, ret[1].value)

\* tests::test_innerp, and a pair whose dot product is not 0
C5_Witness ==
    /\ op = "innerp"
    /\ vec1 = Vector_new(One, MinusOne, One)
    /\ vec2 = Vector_new(One, One, One)
    /\ ret[1].value = One

\* r is a float nearest to the square root of S / Unit^2
NearestSqrt(r, S) ==
    /\ IsFinite(r)
    /\ r.s = 0
    /\ \A m \in FinMags :
           /\ m > r.n => (r.n + m) * (r.n + m) >= 4 * S
           /\ m < r.n => (r.n + m) * (r.n + m) <= 4 * S

\* C6: Vector::mag is the Euclidean norm: 0 for the zero vector, 1 for a
\* unit vector along an axis, a float nearest to sqrt(x^2 + y^2 + z^2)
\* whenever the squares and their sum are exact, and never NaN for a vector
\* with finite components.
C6_MagIsEuclideanNorm ==
    op = "mag" =>
        LET sx == ExactProd(vec1.x, vec1.x)
            sy == ExactProd(vec1.y, vec1.y)
            sz == ExactProd(vec1.z, vec1.z)
        IN  /\ IsZeroVector(vec1) => FEq(ret[1], Zero)
            /\ vec1 \in {AxisX, AxisY, AxisZ} => FEq(ret[1], One)
            /\ AllFinite(vec1) => ~IsNaN(ret[1])
            /\ (/\ AllFinite(vec1)
                /\ Representable(sx) /\ Representable(sy) /\ Representable(sz)
                /\ Representable(sx + sy) /\ Representable(sx + sy + sz))
               => NearestSqrt(ret[1], sx + sy + sz)

\* tests::test_vector_mag
C6_Witness ==
    /\ op = "mag"
    /\ vec1 = AxisY
    /\ ret[1] = One

\* C7: if a or b has zero magnitude, angle(a, b) returns a value and that
\* value is NaN.
C7_AngleOfZeroMagnitudeIsNaN ==
    (/\ op = "angle"
     /\ IsZero(Vector_mag("vec1")) \/ IsZero(Vector_mag("vec2")))
    => /\ ret[1] \in F64
       /\ IsNaN(ret[1])

\* the angle between the zero vector and (1,0,0)
C7_Witness ==
    /\ op = "angle"
    /\ IsZeroVector(vec1)
    /\ vec2 = AxisX
    /\ IsNaN(ret[1])

\* C8 as stated: the magnitude of the zero vector is NaN.
C8_MagOfZeroVectorIsNaN ==
    (op = "mag" /\ IsZeroVector(vec1)) => IsNaN(ret[1])

\* C8 amended: the magnitude of the zero vector is 0.0, an ordinary value:
\* neither NaN nor a signalled fault.
C8_MagOfZeroVectorIsZero ==
    (op = "mag" /\ IsZeroVector(vec1)) => ret[1] = Zero

\* Vector::new(0,0,0).mag()
C8_Witness ==
    /\ op = "mag"
    /\ vec1 = Vector_new(Zero, Zero, Zero)
    /\ ret[1] = Zero

\* two vectors of finite components are parallel: their exact cross product
\* is the zero vector (the zero vector is parallel to every vector)
Parallel(v, w) ==
    /\ AllFinite(v)
    /\ AllFinite(w)
    /\ ExactProd(v.y, w.z) = ExactProd(v.z, w.y)
    /\ ExactProd(v.z, w.x) = ExactProd(v.x, w.z)
    /\ ExactProd(v.x, w.y) = ExactProd(v.y, w.x)

\* the quotient angle hands to acos
Quotient(self, other) ==
    FDiv(innerp(self, other).value, FMul(Vector_mag(self), Vector_mag(other)))

\* C9 as stated: Bivector::mag is 0 whenever x and y are parallel or either
\* is the zero vector, and 1 for x = (1,0,0), y = (0,1,0).
C9_BivectorMagZeroWhenDegenerate ==
    op = "bivector_mag" =>
        /\ (Parallel(vec1, vec2) \/ IsZeroVector(vec1) \/ IsZeroVector(vec2))
               => FEq(ret[1], Zero)
        /\ (vec1 = AxisX /\ vec2 = AxisY) => FEq(ret[1], One)

\* C9 amended: Bivector::mag is NaN when x or y has zero magnitude (the zero
\* vector in particular), is 0 when the quotient
\* innerp(x, y) / (mag(x) * mag(y)) is exactly 1.0 (as for x = y = a unit
\* vector along an axis), and is 1 for x = (1,0,0), y = (0,1,0).
C9_BivectorMagDegenerate ==
    op = "bivector_mag" =>
        /\ (IsZero(Vector_mag("vec1")) \/ IsZero(Vector_mag("vec2")))
               => IsNaN(ret[1])
        /\ Quotient("vec1", "vec2") = One => ret[1] = Zero
        /\ (vec1 = AxisX /\ vec2 = AxisY) => FEq(ret[1], One)
        /\ (vec1 = AxisY /\ vec2 = AxisX) => FEq(ret[1], One)

\* tests::test_bivector_mag
C9_Witness ==
    /\ op = "bivector_mag"
    /\ vec1 = AxisX
    /\ vec2 = AxisY
    /\ ret[1] = One

\* C10 as stated: for all vectors angle(a, b) == angle(b, a) and
\* wedgep(a, b).mag() == wedgep(b, a).mag(), while
\* wedgep(a, b) == wedgep(b, a) only when a == b.
C10_SymmetricForAllVectors ==
    /\ op = "angle" => FEq(ret[1], angle("vec2", "vec1"))
    /\ op = "bivector_mag" => FEq(ret[1], Bivector_mag(wedgep("vec2", "vec1")))
    /\ (op = "wedgep" /\ Bivector_eq(ret[1], wedgep("vec2", "vec1")))
           => Vector_eq(vec1, vec2)

\* C10 amended: angle(a, b) and angle(b, a) are the same value, and so are
\* wedgep(a, b).mag() and wedgep(b, a).mag(); each pair compares == exactly
\* when that value is not NaN (it is NaN when a or b has zero magnitude).
\* wedgep(a, b) and wedgep(b, a) borrow the vectors in opposite order and
\* compare == exactly when a == b.
C10_SymmetricUnlessNaN ==
    /\ op = "angle" =>
           /\ ret[1] = angle("vec2", "vec1")
           /\ FEq(ret[1], angle("vec2", "vec1")) <=> ~IsNaN(ret[1])
    /\ op = "bivector_mag" =>
           /\ ret[1] = Bivector_mag(wedgep("vec2", "vec1"))
           /\ FEq(ret[1], Bivector_mag(wedgep("vec2", "vec1"))) <=> ~IsNaN(ret[1])
    /\ op = "wedgep" =>
           /\ ret[1] # wedgep("vec2", "vec1")
           /\ Bivector_eq(ret[1], wedgep("vec2", "vec1")) <=> Vector_eq(vec1, vec2)

\* a pair whose angle is not a right angle, taken in the order (a, b)
C10_Witness ==
    /\ op = "angle"
    /\ vec1 = Vector_new(One, One, Zero)
    /\ vec2 = AxisX
    /\ ~IsNaN(ret[1])
    /\ ret[1] # FAcos(Zero)
    /\ FEq(ret[1], angle("vec2", "vec1"))

====
